---- MODULE Spec2Model ----
(***************************************************************************)
(* Model of the RAM disk speed test of src/main.py: main() prepares the    *)
(* pool file, maps it, starts one WriterThread per chunk of the mapping,   *)
(* samples the counters in a monitor loop and, on Ctrl+C, sets the stop    *)
(* event, joins the executor, prints the summary and closes the mapping.   *)
(*                                                                         *)
(* Sizes are scaled down: one "GiB" of main.py (1024 ** 3 bytes) is GiB    *)
(* bytes here, so that the content of the mapping can be part of the       *)
(* state.  A byte of the source file is a number 1..Len(source_data); an   *)
(* untouched byte of the pool file is 0.                                   *)
(***************************************************************************)
EXTENDS Integers, Sequences, FiniteSets, TLC

\* ---------------------------------------------------------------- bounds
GiB == 4            \* bytes per unit of pool_size_gb (1024 ** 3 in main.py)
MaxPoolSize == 2    \* pool_size_gb is drawn from 0..MaxPoolSize
MaxFairPool == 1    \* pool_size_gb under the fair scheduling: 0..MaxFairPool
MaxThreads == 2     \* threads is drawn from 1..MaxThreads
MaxPartThreads == 6 \* threads of the partitioning alone: 1..MaxPartThreads
MaxSrcLen == 5      \* the source file has 1..MaxSrcLen bytes
MaxWrites == 2      \* a writer starts no new iteration after MaxWrites
TicksPerMilli == 4  \* clock ticks per 0.001 s
MaxClock == 6       \* the clock stops after MaxClock ticks

Tids == 0 .. ((IF MaxThreads > MaxPartThreads THEN MaxThreads ELSE MaxPartThreads) - 1)

VARIABLES
    pool_size,      \* cfg "pool_size_gb"
    threads,        \* cfg "threads" after the fallback of line 158
    source_data,    \* content of the source file
    pc,             \* position of main()
    mm,             \* content of the pool file / mapping, offset -> byte
    mm_state,       \* "unmapped", "open" or "closed"
    close_count,    \* number of mm.close() calls so far
    stop_event,     \* threading.Event
    nworkers,       \* len(workers): loop index of the spawn loop
    wpc,            \* position of each WriterThread.run
    start_offset, end_offset,
    cursor, remaining,
    write_count, total_bytes,
    wrote,          \* history: offsets each writer has assigned to
    snap,           \* history: write_count of each writer when the event was set
    final_bytes, final_count,   \* the totals of the summary
    exit_status,    \* exit status of the script, RUNNING while main() runs
    clock,          \* time.perf_counter(), in ticks
    now, last_time  \* locals of the monitor loop, in ticks

cfgvars == <<pool_size, threads, source_data>>
mmvars == <<mm, mm_state, close_count>>
wvars == <<wpc, start_offset, end_offset, cursor, remaining, write_count, total_bytes, wrote>>
timevars == <<clock, now, last_time>>
statvars == <<final_bytes, final_count, exit_status, timevars>>
vars == <<cfgvars, pc, mmvars, stop_event, nworkers, wvars, snap, statvars>>

\* ------------------------------------------------------- pure helpers
\* exit_status before the script has ended
RUNNING == -1

\* main() returns None and the script ends after "main()": status 0
ReturnStatus == 0

Min(a, b) == IF a < b THEN a ELSE b
Max(a, b) == IF a > b THEN a ELSE b

\* pool_bytes = pool_size * 1024 * 1024 * 1024
pool_bytes == pool_size * GiB

src_len == Len(source_data)

ChunkSizeCeil(bytes, n) == (bytes + n - 1) \div n
\* chunk_size = pool_bytes // threads
ChunkSize(bytes, n) == bytes \div n

chunk_size == ChunkSize(pool_bytes, threads)

PartStartPacked(i, chunk) == IF i = 0 THEN 0 ELSE i * chunk - 1
\* start = i * chunk_size
PartStart(i, chunk) == i * chunk

\* end = start + chunk_size
PartEnd(start, chunk) == start + chunk

\* Python index clamping of a slice bound against a length
\* (PySlice_AdjustIndices, step 1)
AdjustIndex(k, n) == IF k < 0 THEN Max(k + n, 0) ELSE Min(k, n)

\* s[:r] and s[r:] of a bytes object
SliceTo(s, r) == SubSeq(s, 1, AdjustIndex(r, Len(s)))
SliceFromHead(s, r) == SubSeq(s, 1, Len(s) - AdjustIndex(r, Len(s)))
SliceFrom(s, r) == SubSeq(s, AdjustIndex(r, Len(s)) + 1, Len(s))

\* length of mm[lo:hi] for a mapping of n bytes
SliceLen(lo, hi, n) ==
    LET a == AdjustIndex(lo, n)
        b == AdjustIndex(hi, n)
    IN  IF a < b THEN b - a ELSE 0

\* mm[lo:hi] = data succeeds iff the mapping is open and the sizes agree;
\* otherwise mmap raises ValueError / IndexError
AssignOk(lo, hi, data) ==
    /\ mm_state = "open"
    /\ SliceLen(lo, hi, pool_bytes) = Len(data)

\* the mapping after a successful mm[lo:hi] = data
Assigned(lo, data) ==
    LET a == AdjustIndex(lo, pool_bytes)
    IN  [p \in DOMAIN mm |->
            IF p >= a /\ p < a + Len(data) THEN data[p - a + 1] ELSE mm[p]]

\* the offsets touched by a successful mm[lo:hi] = data
Touched(lo, data) ==
    LET a == AdjustIndex(lo, pool_bytes)
    IN  a .. (a + Len(data) - 1)

FitsStrict(end_pos, end_off) == end_pos < end_off
\* if end_pos <= end_off
Fits(end_pos, end_off) == end_pos <= end_off

TerminatedNormally(i) == wpc[i] = "done"
\* run() of writer i has returned: the loop ended or the except branch ran
Terminated(i) == wpc[i] \in {"done", "failed"}

RECURSIVE SumOver(_, _)
SumOver(f, n) == IF n = 0 THEN 0 ELSE f[n - 1] + SumOver(f, n - 1)

\* ------------------------------------------------------------- Init
InitOf(pools, counts, lengths) ==
    /\ pool_size \in pools
    /\ threads \in counts
    /\ \E L \in lengths : source_data = [k \in 1 .. L |-> k]
    /\ pc = "env"
    /\ mm = [p \in 0 .. (pool_bytes - 1) |-> 0]
    /\ mm_state = "unmapped"
    /\ close_count = 0
    /\ stop_event = FALSE
    /\ nworkers = 0
    /\ wpc = [i \in Tids |-> "none"]
    /\ start_offset = [i \in Tids |-> 0]
    /\ end_offset = [i \in Tids |-> 0]
    /\ cursor = [i \in Tids |-> 0]
    /\ remaining = [i \in Tids |-> 0]
    /\ write_count = [i \in Tids |-> 0]
    /\ total_bytes = [i \in Tids |-> 0]
    /\ wrote = [i \in Tids |-> {}]
    /\ snap = [i \in Tids |-> 0]
    /\ final_bytes = 0
    /\ final_count = 0
    /\ exit_status = RUNNING
    /\ clock = 0
    /\ now = 0
    /\ last_time = 0

InitWith(maxThreads) == InitOf(0 .. MaxPoolSize, 1 .. maxThreads, 1 .. MaxSrcLen)

Init == InitWith(MaxThreads)

\* ------------------------------------------------------ main(): setup
\* 2. RAMDiskManager.prepare_environment(...) returns True or False
PrepareEnvironment ==
    /\ pc = "env"
    /\ \E ok \in BOOLEAN :
         IF ok
         THEN pc' = "source" /\ exit_status' = exit_status
         ELSE pc' = "aborted" /\ exit_status' = ReturnStatus
    /\ UNCHANGED <<cfgvars, mmvars, stop_event, nworkers, wvars, snap, final_bytes, final_count, timevars>>

\* 3. os.path.exists(source_file), then the file is read
LoadSource ==
    /\ pc = "source"
    /\ \E exists \in BOOLEAN :
         IF exists
         THEN pc' = "alloc" /\ exit_status' = exit_status
         ELSE pc' = "aborted" /\ exit_status' = ReturnStatus
    /\ UNCHANGED <<cfgvars, mmvars, stop_event, nworkers, wvars, snap, final_bytes, final_count, timevars>>

\* 4. open(target, 'wb'); f.truncate(pool_bytes) -- OSError aborts
Preallocate ==
    /\ pc = "alloc"
    /\ \E ok \in BOOLEAN :
         IF ok
         THEN pc' = "map" /\ exit_status' = exit_status
         ELSE pc' = "aborted" /\ exit_status' = ReturnStatus
    /\ UNCHANGED <<cfgvars, mmvars, stop_event, nworkers, wvars, snap, final_bytes, final_count, timevars>>

MapFileNoReturn ==
    /\ pc = "map"
    /\ \E ok \in BOOLEAN :
         IF ok /\ pool_bytes > 0
         THEN /\ mm_state' = "open"
              /\ pc' = "spawn"
         ELSE /\ mm_state' = mm_state
              /\ pc' = "spawn"
    /\ UNCHANGED <<cfgvars, mm, close_count, stop_event, nworkers, wvars, snap, statvars>>
\* 5. mmap.mmap(f_target.fileno(), 0): fails on an empty file, or when
\* the open / the mapping is refused by the system
MapFile ==
    /\ pc = "map"
    /\ \E ok \in BOOLEAN :
         IF ok /\ pool_bytes > 0
         THEN /\ mm_state' = "open"
              /\ pc' = "spawn"
              /\ exit_status' = exit_status
         ELSE /\ mm_state' = mm_state
              /\ pc' = "aborted"
              /\ exit_status' = ReturnStatus
    /\ UNCHANGED <<cfgvars, mm, close_count, stop_event, nworkers, wvars, snap,
                   final_bytes, final_count, timevars>>

\* ------------------------------------------------ main(): 6. spawn loop
\* one pass of "for i in range(threads)": build WriterThread i and submit it
Submit ==
    /\ pc = "spawn"
    /\ nworkers < threads
    /\ LET i == nworkers
           start == PartStart(i, chunk_size)
       IN  /\ start_offset' = [start_offset EXCEPT ![i] = start]
           /\ end_offset' = [end_offset EXCEPT ![i] = PartEnd(start, chunk_size)]
           /\ wpc' = [wpc EXCEPT ![i] = "start"]
    /\ nworkers' = nworkers + 1
    /\ UNCHANGED <<cfgvars, pc, mmvars, stop_event, cursor, remaining,
                   write_count, total_bytes, wrote, snap, statvars>>

\* the loop is over: main() prints the header and enters the monitor loop
\* start_test_time = time.perf_counter(); last_time = start_test_time
StartMonitor ==
    /\ pc = "spawn"
    /\ nworkers = threads
    /\ pc' = "monitor"
    /\ last_time' = clock
    /\ UNCHANGED <<cfgvars, mmvars, stop_event, nworkers, wvars, snap,
                   final_bytes, final_count, exit_status, clock, now>>

\* ------------------------------------------------- WriterThread.run
BeginAtZero(i) ==
    /\ wpc[i] = "start"
    /\ cursor' = [cursor EXCEPT ![i] = 0]
    /\ wpc' = [wpc EXCEPT ![i] = "loop"]
    /\ UNCHANGED <<cfgvars, pc, mmvars, stop_event, nworkers, start_offset,
                   end_offset, remaining, write_count, total_bytes, wrote,
                   snap, statvars>>
\* cursor = self.start_offset
Begin(i) ==
    /\ wpc[i] = "start"
    /\ cursor' = [cursor EXCEPT ![i] = start_offset[i]]
    /\ wpc' = [wpc EXCEPT ![i] = "loop"]
    /\ UNCHANGED <<cfgvars, pc, mmvars, stop_event, nworkers, start_offset,
                   end_offset, remaining, write_count, total_bytes, wrote,
                   snap, statvars>>

IsSetEveryOther(i) == stop_event /\ write_count[i] % 2 = 0
IsSetOrQuota(i) == stop_event \/ write_count[i] >= 1
\* self.stop_event.is_set() as writer i reads it
IsSet(i) == stop_event

\* while not self.stop_event.is_set(): end_pos = cursor + src_len; branch
Loop(i) ==
    /\ wpc[i] = "loop"
    /\ IF IsSet(i)
       THEN /\ wpc' = [wpc EXCEPT ![i] = "done"]
            /\ UNCHANGED remaining
       ELSE /\ write_count[i] < MaxWrites
            /\ LET end_pos == cursor[i] + src_len
                   rem == end_offset[i] - cursor[i]
               IN  IF Fits(end_pos, end_offset[i])
                   THEN /\ wpc' = [wpc EXCEPT ![i] = "direct"]
                        /\ UNCHANGED remaining
                   ELSE /\ remaining' = [remaining EXCEPT ![i] = rem]
                        /\ wpc' = [wpc EXCEPT ![i] =
                                     IF rem > 0 THEN "tail" ELSE "head"]
    /\ UNCHANGED <<cfgvars, pc, mmvars, stop_event, nworkers, start_offset,
                   end_offset, cursor, write_count, total_bytes, wrote,
                   snap, statvars>>

\* mm[lo:hi] = data by writer i, then go to next; an exception ends run()
Write(i, lo, hi, data, next) ==
    IF AssignOk(lo, hi, data)
    THEN /\ mm' = Assigned(lo, data)
         /\ wrote' = [wrote EXCEPT ![i] = @ \cup Touched(lo, data)]
         /\ wpc' = [wpc EXCEPT ![i] = next]
    ELSE /\ wpc' = [wpc EXCEPT ![i] = "failed"]
         /\ UNCHANGED <<mm, wrote>>

\* mm[cursor:end_pos] = src_data; cursor = end_pos
WriteDirect(i) ==
    /\ wpc[i] = "direct"
    /\ LET end_pos == cursor[i] + src_len
       IN  /\ Write(i, cursor[i], end_pos, source_data, "count")
           /\ cursor' = IF AssignOk(cursor[i], end_pos, source_data)
                        THEN [cursor EXCEPT ![i] = end_pos]
                        ELSE cursor
    /\ UNCHANGED <<cfgvars, pc, mm_state, close_count, stop_event, nworkers,
                   start_offset, end_offset, remaining, write_count,
                   total_bytes, snap, statvars>>

\* mm[cursor:end_off] = src_data[:remaining]
WriteTail(i) ==
    /\ wpc[i] = "tail"
    /\ Write(i, cursor[i], end_offset[i], SliceTo(source_data, remaining[i]), "head")
    /\ UNCHANGED <<cfgvars, pc, mm_state, close_count, stop_event, nworkers,
                   start_offset, end_offset, cursor, remaining, write_count,
                   total_bytes, snap, statvars>>

WriteHeadFailFast(i) ==
    /\ wpc[i] = "head"
    /\ LET overflow == src_len - remaining[i]
           new_cursor == start_offset[i] + overflow
           data == SliceFrom(source_data, remaining[i])
       IN  /\ Write(i, start_offset[i], new_cursor, data, "count")
           /\ cursor' = IF AssignOk(start_offset[i], new_cursor, data)
                        THEN [cursor EXCEPT ![i] = new_cursor]
                        ELSE cursor
           /\ stop_event' = IF AssignOk(start_offset[i], new_cursor, data)
                            THEN stop_event
                            ELSE TRUE
    /\ UNCHANGED <<cfgvars, pc, mm_state, close_count, nworkers,
                   start_offset, end_offset, remaining, write_count,
                   total_bytes, snap, statvars>>
WriteHeadCountingFailure(i) ==
    /\ wpc[i] = "head"
    /\ LET overflow == src_len - remaining[i]
           new_cursor == start_offset[i] + overflow
           data == SliceFrom(source_data, remaining[i])
       IN  /\ Write(i, start_offset[i], new_cursor, data, "count")
           /\ cursor' = IF AssignOk(start_offset[i], new_cursor, data)
                        THEN [cursor EXCEPT ![i] = new_cursor]
                        ELSE cursor
           /\ write_count' = IF AssignOk(start_offset[i], new_cursor, data)
                             THEN write_count
                             ELSE [write_count EXCEPT ![i] = @ + 1]
    /\ UNCHANGED <<cfgvars, pc, mm_state, close_count, stop_event, nworkers,
                   start_offset, end_offset, remaining,
                   total_bytes, snap, statvars>>
\* overflow = src_len - remaining; new_cursor = start_off + overflow
\* mm[start_off:new_cursor] = src_data[remaining:]; cursor = new_cursor
WriteHead(i) ==
    /\ wpc[i] = "head"
    /\ LET overflow == src_len - remaining[i]
           new_cursor == start_offset[i] + overflow
           data == SliceFrom(source_data, remaining[i])
       IN  /\ Write(i, start_offset[i], new_cursor, data, "count")
           /\ cursor' = IF AssignOk(start_offset[i], new_cursor, data)
                        THEN [cursor EXCEPT ![i] = new_cursor]
                        ELSE cursor
    /\ UNCHANGED <<cfgvars, pc, mm_state, close_count, stop_event, nworkers,
                   start_offset, end_offset, remaining, write_count,
                   total_bytes, snap, statvars>>

\* self.write_count += 1
CountWrite(i) ==
    /\ wpc[i] = "count"
    /\ write_count' = [write_count EXCEPT ![i] = @ + 1]
    /\ wpc' = [wpc EXCEPT ![i] = "bytes"]
    /\ UNCHANGED <<cfgvars, pc, mmvars, stop_event, nworkers, start_offset,
                   end_offset, cursor, remaining, total_bytes, wrote, snap,
                   statvars>>

BytesIncChunk(i) == end_offset[i] - start_offset[i]
\* the increment of self.total_bytes += src_len
BytesInc(i) == src_len

\* self.total_bytes += src_len
CountBytes(i) ==
    /\ wpc[i] = "bytes"
    /\ total_bytes' = [total_bytes EXCEPT ![i] = @ + BytesInc(i)]
    /\ wpc' = [wpc EXCEPT ![i] = "loop"]
    /\ UNCHANGED <<cfgvars, pc, mmvars, stop_event, nworkers, start_offset,
                   end_offset, cursor, remaining, write_count, wrote, snap,
                   statvars>>

\* ------------------------------------------- main(): 7. monitor loop
\* The sums of a sample (cur_bytes, cur_count, last_total_*) and the printed
\* quotients are locals of main() that only feed the printed row; they are
\* not kept in the state.

\* 0.001, the replacement of a non-positive diff_time
Eps == TicksPerMilli

DiffTimeFloored(t, last) == Max(t - last, Eps)
\* diff_time = now - last_time; if diff_time <= 0: diff_time = 0.001
\* -- the divisor of speed_gb and of iops
DiffTime(t, last) == IF t - last <= 0 THEN Eps ELSE t - last

\* the clock of time.perf_counter() advances while main() sleeps or runs in
\* the monitor loop (time is kept relative to the start of the loop)
Tick ==
    /\ pc \in {"monitor", "sampled"}
    /\ clock < MaxClock
    /\ clock' = clock + 1
    /\ UNCHANGED <<cfgvars, pc, mmvars, stop_event, nworkers, wvars, snap,
                   final_bytes, final_count, exit_status, now, last_time>>

\* time.sleep(interval); now = time.perf_counter()
\* cur_bytes = sum(w.total_bytes for w in workers)
SampleBytes ==
    /\ pc = "monitor"
    /\ now' = clock
    /\ pc' = "sampled"
    /\ UNCHANGED <<cfgvars, mmvars, stop_event, nworkers, wvars, snap,
                   final_bytes, final_count, exit_status, clock, last_time>>

\* cur_count = sum(w.write_count for w in workers); the row is printed with
\* the quotients by DiffTime(now, last_time); last_time = now
SampleCount ==
    /\ pc = "sampled"
    /\ last_time' = now
    /\ pc' = "monitor"
    /\ UNCHANGED <<cfgvars, mmvars, stop_event, nworkers, wvars, snap,
                   final_bytes, final_count, exit_status, clock, now>>

\* except KeyboardInterrupt: Ctrl+C arrives while main() is in the try block
Interrupt ==
    /\ pc \in {"monitor", "sampled"}
    /\ pc' = "interrupted"
    /\ UNCHANGED <<cfgvars, mmvars, stop_event, nworkers, wvars, snap, statvars>>

SetStopForgotten ==
    /\ pc = "interrupted"
    /\ pc' = "join"
    /\ UNCHANGED <<cfgvars, mmvars, stop_event, nworkers, wvars, snap, statvars>>
\* stop_event.set()
SetStop ==
    /\ pc = "interrupted"
    /\ stop_event' = TRUE
    /\ snap' = write_count
    /\ pc' = "join"
    /\ UNCHANGED <<cfgvars, mmvars, nworkers, wvars, statvars>>

ShutdownNoWait == TRUE
\* executor.shutdown(wait=True) returns once every submitted run() returned
ShutdownReturns == \A i \in 0 .. (nworkers - 1) : Terminated(i)

Join ==
    /\ pc = "join"
    /\ ShutdownReturns
    /\ pc' = "final"
    /\ UNCHANGED <<cfgvars, mmvars, stop_event, nworkers, wvars, snap, statvars>>

FinalStatsSkippingFailed ==
    /\ pc = "final"
    /\ final_bytes' = SumOver(total_bytes, nworkers)
    /\ final_count' = SumOver([i \in Tids |->
                                 IF wpc[i] = "failed" THEN 0 ELSE write_count[i]],
                              nworkers)
    /\ pc' = "close"
    /\ UNCHANGED <<cfgvars, mmvars, stop_event, nworkers, wvars, snap, exit_status, timevars>>
\* final_bytes = sum(w.total_bytes ...); final_count = sum(w.write_count ...)
FinalStats ==
    /\ pc = "final"
    /\ final_bytes' = SumOver(total_bytes, nworkers)
    /\ final_count' = SumOver(write_count, nworkers)
    /\ pc' = "close"
    /\ UNCHANGED <<cfgvars, mmvars, stop_event, nworkers, wvars, snap, exit_status, timevars>>

CloseClearing ==
    /\ pc = "close"
    /\ mm_state' = "closed"
    /\ close_count' = close_count + 1
    /\ stop_event' = FALSE
    /\ pc' = "exit"
    /\ exit_status' = ReturnStatus
    /\ UNCHANGED <<cfgvars, mm, nworkers, wvars, snap, final_bytes, final_count, timevars>>
\* mm.close(); f_target.close()
Close ==
    /\ pc = "close"
    /\ mm_state' = "closed"
    /\ close_count' = close_count + 1
    /\ pc' = "exit"
    /\ exit_status' = ReturnStatus
    /\ UNCHANGED <<cfgvars, mm, stop_event, nworkers, wvars, snap,
                   final_bytes, final_count, timevars>>

Writer(i) ==
    \/ Begin(i)
    \/ Loop(i)
    \/ WriteDirect(i)
    \/ WriteTail(i)
    \/ WriteHead(i)
    \/ CountWrite(i)
    \/ CountBytes(i)

Next ==
    \/ PrepareEnvironment
    \/ LoadSource
    \/ Preallocate
    \/ MapFile
    \/ Submit
    \/ StartMonitor
    \/ \E i \in Tids : Writer(i)
    \/ SampleBytes
    \/ SampleCount
    \/ Interrupt
    \/ SetStop
    \/ Join
    \/ FinalStats
    \/ Close

Spec == Init /\ [][Next]_vars

\* Scheduling: every writer runs in a thread of its own and main() is a
\* thread too, so a step of run() or of the shutdown path of main() that
\* stays possible is eventually taken.  The arrival of Ctrl+C and the number
\* of monitor rounds are not forced.
\* The except KeyboardInterrupt block of main(), one thread's straight line
ShutdownPath == SetStop \/ Join \/ FinalStats \/ Close

Fairness ==
    /\ \A i \in 0 .. (MaxThreads - 1) : WF_vars(Writer(i))
    /\ WF_vars(ShutdownPath)

\* The runs checked under the fair scheduling start from the pool sizes up to
\* MaxFairPool and from the shortest and the longest source file.
InitFair == InitOf(0 .. MaxFairPool, 1 .. MaxThreads, {1, MaxSrcLen})

FairSpec == InitFair /\ [][Next]_vars /\ Fairness

\* The partitioning alone: the setup and the spawn loop of main() for up to
\* MaxPartThreads threads, the writers not being scheduled.
InitPart == InitWith(MaxPartThreads)

NextPart ==
    \/ PrepareEnvironment
    \/ LoadSource
    \/ Preallocate
    \/ MapFile
    \/ Submit
    \/ StartMonitor

SpecPart == InitPart /\ [][NextPart]_vars

\* The monitor loop with its clock: the setup, the spawn loop and the samples
\* of main() while time passes, the writers not being scheduled.  In Spec
\* and FairSpec the clock stands still.
NextStats ==
    \/ PrepareEnvironment
    \/ LoadSource
    \/ Preallocate
    \/ MapFile
    \/ Submit
    \/ StartMonitor
    \/ Tick
    \/ SampleBytes
    \/ SampleCount

SpecStats == Init /\ [][NextStats]_vars

\* =================================================================
\* Properties
\* =================================================================
Existing == 0 .. (nworkers - 1)

\* the byte range [start, end) handed to writer i
Partition(i) == start_offset[i] .. (end_offset[i] - 1)

\* the spawn loop has handed out all partitions of a valid (base_size, N)
AllSubmitted == nworkers = threads /\ pool_bytes >= threads

PairwiseDisjoint ==
    \A i, j \in Existing : i # j => Partition(i) \cap Partition(j) = {}

Contiguous ==
    \A i \in Existing : i + 1 \in Existing => end_offset[i] = start_offset[i + 1]

C2_OwnPartitionOnly ==
    (threads >= 2 /\ src_len <= chunk_size) =>
        /\ \A i \in Tids : wrote[i] \subseteq Partition(i)
        /\ \A i, j \in Tids : i # j => wrote[i] \cap wrote[j] = {}

\* two writers have both wrapped around after filling their partitions
C2_Witness ==
    /\ threads >= 2
    /\ src_len < chunk_size
    /\ \A i \in {0, 1} :
          /\ wrote[i] = Partition(i)
          /\ write_count[i] >= 2
          /\ cursor[i] < end_offset[i]

\* C3 as stated: when the payload is longer than a partition, no writer is
\* started and no byte of the region is written; in particular no writer
\* assigns outside its own partition.
C3_OversizeRejected ==
    src_len > chunk_size =>
        /\ nworkers = 0
        /\ \A i \in Tids : wrote[i] = {} /\ wrote[i] \subseteq Partition(i)
        /\ \A p \in DOMAIN mm : mm[p] = 0

\* C4 as stated: total_bytes == write_count * L for every writer, always.
C4_CountersAtomic ==
    \A i \in Tids : total_bytes[i] = write_count[i] * src_len

\* C4 amended: total_bytes == write_count * L for every writer that is not
\* between its two counter updates (in particular once it has terminated);
\* between the update of write_count and that of total_bytes, which the
\* monitor loop can observe, total_bytes == (write_count - 1) * L.
C4_CountersLagByOne ==
    \A i \in Tids :
        IF wpc[i] = "bytes"
        THEN total_bytes[i] = (write_count[i] - 1) * src_len
        ELSE total_bytes[i] = write_count[i] * src_len

\* the monitor loop is between its two sums while a writer is between its two
\* counter updates
C4_Witness ==
    /\ pc = "sampled"
    /\ \E i \in Existing : wpc[i] = "bytes" /\ write_count[i] >= 2

\* C5: once the stop event is set, a writer completes at most one more
\* iteration; a writer at the top of its loop then starts no new iteration;
\* and a writer leaves its loop normally only from the top of the loop with
\* the event set, never from between two writes or from between a write and
\* its counter updates.
C5_AtMostOneMore ==
    /\ [](stop_event => \A i \in Tids : write_count[i] <= snap[i] + 1)
    /\ [][\A i \in Tids :
            /\ (stop_event /\ wpc[i] = "loop") => wpc'[i] \in {"loop", "done"}
            /\ (wpc[i] # "done" /\ wpc'[i] = "done") =>
                    (wpc[i] = "loop" /\ stop_event)]_vars

\* a writer has completed one more iteration, a wraparound, after the event
\* was set, and has terminated
C5_Witness ==
    /\ stop_event
    /\ \E i \in Existing :
          /\ wpc[i] = "done"
          /\ write_count[i] = snap[i] + 1
          /\ snap[i] >= 1
          /\ cursor[i] < start_offset[i] + src_len

\* the size of the partition of writer i
Size(i) == end_offset[i] - start_offset[i]

\* writer i is at an iteration boundary: write_count[i] iterations are complete
AtBoundary(i) == wpc[i] \in {"loop", "done"}

Started(i) == wpc[i] \notin {"none", "start"}

\* C7 as stated: start <= cursor < end in every state of a writer whose
\* payload fits its partition.
C7_CursorBelowEnd ==
    \A i \in Existing :
        (Started(i) /\ src_len <= Size(i)) =>
            (start_offset[i] <= cursor[i] /\ cursor[i] < end_offset[i])

\* C7 amended: start <= cursor <= end in every state of a writer whose payload
\* fits its partition; cursor == end is reached when a direct write ends
\* exactly at the partition's end.
C7_CursorWithinClosed ==
    \A i \in Existing :
        (Started(i) /\ src_len <= Size(i)) =>
            (start_offset[i] <= cursor[i] /\ cursor[i] <= end_offset[i])

\* a writer whose payload is exactly as long as its partition has written it
\* once, directly, and its cursor is at the partition's end
C7_Witness ==
    \E i \in Existing :
        /\ src_len = Size(i)
        /\ wpc[i] = "count"
        /\ wrote[i] = Partition(i)
        /\ cursor[i] = end_offset[i]

\* the circular-copy reference: the byte at offset p of the partition of
\* writer i after the payload has been streamed m times into it
RefByte(i, p, m) ==
    LET T == {t \in 0 .. (m * src_len - 1) : t % Size(i) = p - start_offset[i]}
    IN  IF T = {} THEN 0
        ELSE LET last == CHOOSE t \in T : \A u \in T : u <= t
             IN  source_data[(last % src_len) + 1]

\* C8: at every iteration boundary of a writer whose payload fits, its
\* partition holds the circular-copy reference of write_count iterations.
C8_CircularCopy ==
    \A i \in Existing :
        (AtBoundary(i) /\ src_len <= Size(i)) =>
            \A p \in Partition(i) : mm[p] = RefByte(i, p, write_count[i])

\* a writer has completed an iteration that was split at the partition's end
C8_Witness ==
    \E i \in Existing :
        /\ AtBoundary(i)
        /\ src_len < Size(i)
        /\ write_count[i] * src_len > Size(i)
        /\ cursor[i] > start_offset[i]
        /\ cursor[i] < start_offset[i] + src_len
        /\ mm[start_offset[i]] # source_data[1]

\* C9: the mapping is closed at most once, exactly once when main() has run
\* to its end, and whenever it is closed every submitted writer has
\* terminated, all writers were submitted, and no write hits the closed
\* mapping.
C9_ReleasedOnceAfterJoin ==
    /\ [](/\ close_count <= 1
          /\ (pc = "exit" => close_count = 1)
          /\ (mm_state = "closed") = (close_count = 1)
          /\ (close_count >= 1 =>
                 /\ nworkers = threads
                 /\ \A i \in Existing : Terminated(i)))
    /\ [][mm_state = "closed" => (mm' = mm /\ wrote' = wrote /\ wpc' = wpc)]_vars

\* the mapping is closed after two writers have written and terminated
C9_Witness ==
    /\ mm_state = "closed"
    /\ nworkers = 2
    /\ \A i \in Existing : wpc[i] = "done" /\ write_count[i] >= 1

\* the state of the run controller, by the position of main(): Idle in the
\* setup steps 2-5 (and after a setup step has returned), Running in step 6
\* and in the monitor loop until stop_event.set(), Draining until mm.close(),
\* Stopped afterwards
State ==
    CASE pc \in {"env", "source", "alloc", "map", "aborted"} -> "Idle"
      [] pc \in {"spawn", "monitor", "sampled", "interrupted"} -> "Running"
      [] pc \in {"join", "final", "close"} -> "Draining"
      [] pc = "exit" -> "Stopped"

\* C10: the controller moves only Idle -> Running -> Draining -> Stopped, one
\* state at a time; no writer exists while it is Idle; the stop event changes
\* exactly on Running -> Draining, from unset to set; nothing leaves Stopped.
C10_StateOrder ==
    /\ [](State = "Idle" => nworkers = 0 /\ \A i \in Tids : wpc[i] = "none")
    /\ [][/\ State' # State =>
                <<State, State'>> \in {<<"Idle", "Running">>,
                                       <<"Running", "Draining">>,
                                       <<"Draining", "Stopped">>}
          /\ (stop_event' # stop_event) = (State = "Running" /\ State' = "Draining")
          /\ stop_event' # stop_event => (~stop_event /\ stop_event')
          /\ State = "Stopped" => (State' = "Stopped" /\ pc' = pc)]_vars

\* the controller has reached Stopped after running writers that wrote
C10_Witness ==
    /\ State = "Stopped"
    /\ stop_event
    /\ \E i \in Existing : write_count[i] >= 1

\* C11: the stop event is unset until main() has handled the interrupt, once
\* set it stays set, it changes only in the step of main() that leaves the
\* "interrupted" position, and no step of a writer, a failing write included,
\* changes it.
C11_TokenSetOnceByMain ==
    /\ [](stop_event => pc \in {"join", "final", "close", "exit"})
    /\ [][/\ stop_event => stop_event'
          /\ stop_event' # stop_event => (pc = "interrupted" /\ wpc' = wpc)
          /\ (\E i \in Tids : wpc'[i] # wpc[i]) => stop_event' = stop_event]_vars

\* main() has run to its end with the event set although a writer had failed
C11_Witness ==
    /\ pc = "exit"
    /\ stop_event
    /\ \E i \in Existing : wpc[i] = "failed"

Fails(i) == wpc[i] # "failed" /\ wpc'[i] = "failed"

\* C13: the step in which a write of writer i raises changes neither the stop
\* event nor the position of main() nor the position, cursor or counters of
\* any other writer; and while a writer has failed and the event is unset,
\* main() stays in Running and every other writer that is inside run() and
\* below the iteration bound can take its next step.
C13_FailureIsLocal ==
    /\ [][\A i \in Tids : Fails(i) =>
            /\ stop_event' = stop_event
            /\ pc' = pc
            /\ \A j \in Tids \ {i} :
                  /\ wpc'[j] = wpc[j]
                  /\ cursor'[j] = cursor[j]
                  /\ write_count'[j] = write_count[j]
                  /\ total_bytes'[j] = total_bytes[j]]_vars
    /\ []((~stop_event /\ \E i \in Existing : wpc[i] = "failed") =>
            /\ State = "Running"
            /\ \A j \in Existing :
                  (~Terminated(j) /\ ~(wpc[j] = "loop" /\ write_count[j] >= MaxWrites))
                      => ENABLED Writer(j))

\* while main() is Running with the event unset, one writer has failed in its
\* first iteration and another one has completed an iteration and is inside
\* its next one
C13_Witness ==
    /\ State = "Running"
    /\ ~stop_event
    /\ \E i, j \in Existing :
          /\ wpc[i] = "failed"
          /\ write_count[i] = 0
          /\ write_count[j] >= 1
          /\ wpc[j] \in {"direct", "tail", "head"}

\* no writer has been built or submitted and the pool file is untouched
NothingStarted ==
    /\ nworkers = 0
    /\ \A i \in Tids : wpc[i] = "none" /\ wrote[i] = {}
    /\ \A p \in DOMAIN mm : mm[p] = 0

\* C14: when a setup step has failed, no writer was submitted and nothing was
\* written, and this stays so: main() has returned.  Writers exist and bytes
\* are written only with the mapping opened, past the setup steps.
C14_SetupFailureStartsNothing ==
    /\ [](pc = "aborted" => NothingStarted /\ stop_event = FALSE)
    /\ [](~NothingStarted =>
             /\ mm_state # "unmapped"
             /\ pc \notin {"env", "source", "alloc", "map", "aborted"})
    /\ [][pc = "aborted" => (pc' = "aborted" /\ NothingStarted')]_vars

\* main() has returned because a non-empty pool file could not be mapped
C14_Witness ==
    /\ pc = "aborted"
    /\ mm_state = "unmapped"
    /\ pool_bytes > 0
    /\ NothingStarted

\* C15 as stated: a run that ends in a setup failure ends with a non-zero
\* exit status, a run that ends after the graceful shutdown ends with
\* status 0.
C15_FailureExitsNonZero ==
    /\ pc = "aborted" => (exit_status # RUNNING /\ exit_status # 0)
    /\ pc = "exit" => exit_status = 0

\* C16 as stated: with base_size < N the partitioning is refused, no writer
\* is submitted, and no writer is ever given an empty partition.
C16_TooManyThreadsRefused ==
    /\ pool_bytes < threads => nworkers = 0
    /\ \A i \in Existing : start_offset[i] < end_offset[i]

\* C17: a writer terminates normally only from the top of its loop with the
\* event set, and takes the except branch only in a step that attempts a
\* write; while the event is unset no writer has terminated normally, and a
\* writer at the top of its loop (below the iteration bound) can only start
\* its next iteration, which it is able to do.
C17_LeavesLoopOnlyOnStopOrError ==
    /\ [](~stop_event => \A i \in Tids : wpc[i] # "done")
    /\ [](\A i \in Existing :
            (~stop_event /\ wpc[i] = "loop" /\ write_count[i] < MaxWrites)
                => ENABLED Loop(i))
    /\ [][\A i \in Tids :
            /\ (wpc[i] # "done" /\ wpc'[i] = "done") => (wpc[i] = "loop" /\ stop_event)
            /\ Fails(i) => wpc[i] \in {"direct", "tail", "head"}
            /\ (~stop_event /\ wpc[i] = "loop" /\ wpc'[i] # "loop")
                  => wpc'[i] \in {"direct", "tail", "head"}]_vars

\* with the event unset, a writer whose writes all succeeded is inside its
\* last iteration below the bound, after a wraparound
C17_Witness ==
    /\ ~stop_event
    /\ \E i \in Existing :
          /\ write_count[i] = MaxWrites - 1
          /\ write_count[i] >= 1
          /\ wpc[i] \in {"tail", "head"}
          /\ src_len <= Size(i)

\* the interval of the sample being taken
Interval == now - last_time

\* C18 as stated: the divisor of a sample is max(now - prev_time, epsilon).
C18_DivisorIsMaxWithEps ==
    pc = "sampled" => DiffTime(now, last_time) = Max(Interval, Eps)

\* C18 amended: the divisor of a sample is now - prev_time whenever that is
\* positive, also when it is smaller than epsilon, and epsilon only when
\* now - prev_time <= 0; so the divisor is positive but not bounded below by
\* epsilon.
C18_DivisorFlooredOnlyAtZero ==
    pc = "sampled" =>
        /\ DiffTime(now, last_time) > 0
        /\ Interval > 0 => DiffTime(now, last_time) = Interval
        /\ Interval <= 0 => DiffTime(now, last_time) = Eps
        /\ (0 < Interval /\ Interval < Eps) => DiffTime(now, last_time) < Eps

\* a sample, not the first one, is taken after a positive interval shorter
\* than epsilon
C18_Witness ==
    /\ pc = "sampled"
    /\ last_time > 0
    /\ 0 < Interval
    /\ Interval < Eps

\* the totals of the summary have been read
TotalsRead == pc \in {"close", "exit"}

\* C19: when the totals of the summary are read, every submitted writer has
\* terminated; the totals are the sums of the counters over all writers,
\* failed ones included, so final_bytes == L * final_count; and no counter
\* changes once they are read.
C19_FinalTotalsAfterJoin ==
    /\ [](pc = "final" => \A i \in Existing : Terminated(i))
    /\ [](TotalsRead =>
            /\ \A i \in Existing : Terminated(i)
            /\ final_count = SumOver(write_count, nworkers)
            /\ final_bytes = SumOver(total_bytes, nworkers)
            /\ final_bytes = src_len * final_count)
    /\ [][TotalsRead => (/\ write_count' = write_count
                         /\ total_bytes' = total_bytes
                         /\ final_bytes' = final_bytes
                         /\ final_count' = final_count)]_vars

\* the summary counts the iterations of a writer that failed later and of a
\* writer that terminated normally
C19_Witness ==
    /\ pc = "exit"
    /\ \E i, j \in Existing :
          /\ wpc[i] = "failed" /\ write_count[i] >= 1
          /\ wpc[j] = "done" /\ write_count[j] >= 1
    /\ final_count >= 2

\* C20: in the step in which a write of writer i raises, its counters do not
\* change; a failed writer has total_bytes == write_count * L, the values of
\* its last completed iteration, stays failed and its counters never change
\* again.
C20_FailureKeepsCounters ==
    /\ [](\A i \in Existing :
            wpc[i] = "failed" => total_bytes[i] = write_count[i] * src_len)
    /\ [][\A i \in Tids :
            (Fails(i) \/ wpc[i] = "failed") =>
                /\ wpc'[i] = "failed"
                /\ write_count'[i] = write_count[i]
                /\ total_bytes'[i] = total_bytes[i]]_vars

\* a writer failed in the second segment of its first iteration: the first
\* segment is in the mapping and its counters are still 0
C20_Witness ==
    \E i \in Existing :
        /\ wpc[i] = "failed"
        /\ write_count[i] = 0
        /\ total_bytes[i] = 0
        /\ wrote[i] # {}
        /\ mm[start_offset[i]] = source_data[1]

====
